---- MODULE Spec2Model ----
(***************************************************************************)
(* Model of the AI Policy Advisor: the prompt accumulator                  *)
(* (add_to_ai_prompt, read_file_for_ai) and the advisory request           *)
(* orchestrator (ai_policy_advisor, call_ollama) of                        *)
(* src/python/ai_policy_advisor/ai_policy_advisor.py.                      *)
(*                                                                         *)
(* Python strings are modelled as run-length encoded sequences of code     *)
(* points, <<c, n>> standing for n copies of the code point c, so that     *)
(* prompts of tens of thousands of characters (the truncation cap is       *)
(* 32000) are ordinary values.  A text is kept canonical: no run is empty  *)
(* and adjacent runs hold different code points, so equal strings are      *)
(* equal values.                                                           *)
(***************************************************************************)
EXTENDS Integers, Sequences, FiniteSets, TLC

----------------------------------------------------------------------------
(* Bounds of the model                                                     *)

\* appends/loads accepted between two resets of the buffer
MaxAppends == 2
\* fragments in one streamed response
MaxFrags == 3
\* a string one character short of the truncation cap (the line terminator
\* that every append adds fills it exactly)
LongRun == 31999
\* a string of two-byte characters: over the cap in bytes, under it in
\* characters
WideRun == 16001

----------------------------------------------------------------------------
(* Text: Python str                                                        *)

\* code points that take more than one byte in UTF-8; every other code
\* point used by the model is ASCII
Width(c) == CASE c = "e_acute" -> 2
              [] c = "euro"    -> 3
              [] c = "emoji"   -> 4
              [] OTHER         -> 1

NL == "\n"

Rep(c, n) == IF n = 0 THEN << >> ELSE << <<c, n>> >>

\* a + b
Cat(a, b) ==
    IF a = << >> THEN b
    ELSE IF b = << >> THEN a
    ELSE IF a[Len(a)][1] = b[1][1]
         THEN SubSeq(a, 1, Len(a) - 1)
                \o << <<b[1][1], a[Len(a)][2] + b[1][2]>> >>
                \o Tail(b)
         ELSE a \o b

\* The concatenation of parts[lo], ..., parts[hi] (by halves: the texts of
\* the model can hold hundreds of runs).
RECURSIVE CatRange(_, _, _)
CatRange(parts, lo, hi) ==
    IF lo > hi THEN << >>
    ELSE IF lo = hi THEN parts[lo]
    ELSE LET mid == (lo + hi) \div 2
         IN  Cat(CatRange(parts, lo, mid), CatRange(parts, mid + 1, hi))

CatAll(parts) == CatRange(parts, 1, Len(parts))

\* a string literal, given as the sequence of its characters
Lit(cs) == CatAll([i \in 1..Len(cs) |-> << <<cs[i], 1>> >>])

\* the number of code points, or of UTF-8 bytes, of the runs lo..hi of t
RECURSIVE LenRange(_, _, _, _)
LenRange(t, lo, hi, bytes) ==
    IF lo > hi THEN 0
    ELSE IF lo = hi
         THEN IF bytes THEN t[lo][2] * Width(t[lo][1]) ELSE t[lo][2]
    ELSE LET mid == (lo + hi) \div 2
         IN  LenRange(t, lo, mid, bytes) + LenRange(t, mid + 1, hi, bytes)

\* len(s)
StrLen(t) == LenRange(t, 1, Len(t), FALSE)

\* len(s.encode('utf-8'))
Utf8Len(t) == LenRange(t, 1, Len(t), TRUE)

\* the first k code points of the runs lo..hi of t
RECURSIVE SliceRange(_, _, _, _)
SliceRange(t, lo, hi, k) ==
    IF lo > hi \/ k <= 0 THEN << >>
    ELSE IF lo = hi
         THEN << <<t[lo][1], IF t[lo][2] < k THEN t[lo][2] ELSE k>> >>
    ELSE LET mid  == (lo + hi) \div 2
             left == LenRange(t, lo, mid, FALSE)
         IN  IF k <= left THEN SliceRange(t, lo, mid, k)
             ELSE SubSeq(t, lo, mid) \o SliceRange(t, mid + 1, hi, k - left)

\* s[:k], k >= 0: the first k code points
Slice(t, k) == SliceRange(t, 1, Len(t), k)

\* s.startswith(p)
IsPrefix(p, t) == p = Slice(t, StrLen(p))

\* sep.join(parts)
Join(sep, parts) ==
    CatAll([i \in 1..(2 * Len(parts) - 1) |->
              IF i % 2 = 1 THEN parts[(i + 1) \div 2] ELSE sep])

\* the lines of the runs lo..hi of t, split at every "\n"
RECURSIVE SplitRange(_, _, _)
SplitRange(t, lo, hi) ==
    IF lo > hi THEN << << >> >>
    ELSE IF lo = hi
         THEN IF t[lo][1] = NL THEN [i \in 1..(t[lo][2] + 1) |-> << >>]
              ELSE << << t[lo] >> >>
    ELSE LET mid == (lo + hi) \div 2
             l   == SplitRange(t, lo, mid)
             r   == SplitRange(t, mid + 1, hi)
         IN  SubSeq(l, 1, Len(l) - 1) \o << Cat(l[Len(l)], r[1]) >> \o Tail(r)

\* s.split("\n"): the lines of s, an empty string giving one empty line
SplitLines(t) == SplitRange(t, 1, Len(t))

\* str(n) for a natural number n
DigitChars == <<"0", "1", "2", "3", "4", "5", "6", "7", "8", "9">>

RECURSIVE IntToText(_)
IntToText(n) ==
    IF n < 10 THEN << <<DigitChars[n + 1], 1>> >>
    ELSE Cat(IntToText(n \div 10), << <<DigitChars[(n % 10) + 1], 1>> >>)

----------------------------------------------------------------------------
(* Python values passed to add_to_ai_prompt                                *)

\* One record shape for every value; a field a kind does not use is empty.
\*   kind   "str" | "list" | "tuple" | "ndarray" | "DataFrame" | "Series"
\*          | "dict" | "int" | "object"
\*   text   the characters of a str
\*   xs     the elements of a list/tuple/ndarray (each an int or a str),
\*          the items of a Series, the values of a dict, the value of an
\*          int (naturals)
\*   keys   the keys of a dict, in insertion order
\*   ncols  the number of columns of a DataFrame
\*   rows   the rows of a DataFrame, each a sequence of ncols naturals
\*   ok     dict: json can serialise it; object: __str__ returns
Value(kind, text, xs, keys, ncols, rows, ok) ==
    [kind |-> kind, text |-> text, xs |-> xs, keys |-> keys,
     ncols |-> ncols, rows |-> rows, ok |-> ok]

PyStr(t)         == Value("str", t, << >>, << >>, 0, << >>, TRUE)
PySeq(kind, xs)  == Value(kind, << >>, xs, << >>, 0, << >>, TRUE)
PyFrame(nc, rs)  == Value("DataFrame", << >>, << >>, << >>, nc, rs, TRUE)
PySeries(xs)     == Value("Series", << >>, xs, << >>, 0, << >>, TRUE)
PyDict(ks, vs, ok) == Value("dict", << >>, vs, ks, 0, << >>, ok)
PyInt(n)         == Value("int", << >>, <<n>>, << >>, 0, << >>, TRUE)
PyObject(ok)     == Value("object", << >>, << >>, << >>, 0, << >>, ok)

\* len(results) for the kinds that have one
PyLen(v) == IF v.kind = "DataFrame" THEN Len(v.rows) ELSE Len(v.xs)

\* (variant: the preview keeps every element)
Head_n_All(v, n) == v

\* results[:n] / results.head(n)
Head_n(v, n) ==
    IF v.kind = "DataFrame"
    THEN [v EXCEPT !.rows = SubSeq(v.rows, 1, IF n < Len(v.rows) THEN n ELSE Len(v.rows))]
    ELSE [v EXCEPT !.xs = SubSeq(v.xs, 1, IF n < Len(v.xs) THEN n ELSE Len(v.xs))]

\* an element of a list, tuple or array: an int or a str
E_int(n) == [int |-> n]
E_str(t) == [str |-> t]

\* str(x) for such an element
str_elem(x) == IF "str" \in DOMAIN x THEN x.str ELSE IntToText(x.int)

\* " ".join(str(x) for x in results)
JoinStr(xs) == Join(Rep(" ", 1), [i \in 1..Len(xs) |-> str_elem(xs[i])])

\* pandas DataFrame.to_string(): a line of column names, then one line per
\* row holding the row's index label and its cells (library code; the
\* layout is kept, the column padding is two spaces throughout)
ColNames == <<"a", "b", "c">>

RECURSIVE CellsLine(_)
CellsLine(cells) ==
    IF cells = << >> THEN << >>
    ELSE Cat(Cat(Rep(" ", 2), cells[1]), CellsLine(Tail(cells)))

DataFrame_to_string(df) ==
    IF df.ncols = 0 /\ df.rows = << >>
    THEN Lit(<<"E","m","p","t","y"," ","D","a","t","a","F","r","a","m","e">>)
    ELSE Join(Rep(NL, 1),
              << Cat(Rep(" ", 1),
                     CellsLine([j \in 1..df.ncols |-> Rep(ColNames[j], 1)])) >>
              \o [i \in 1..Len(df.rows) |->
                    Cat(IntToText(i - 1),
                        CellsLine([j \in 1..df.ncols |->
                                     IntToText(df.rows[i][j])]))])

\* pandas Series.to_string(): one line per item, index label and value
Series_to_string(sr) ==
    IF sr.xs = << >>
    THEN Lit(<<"S","e","r","i","e","s","(","[","]",","," ",")">>)
    ELSE Join(Rep(NL, 1),
              [i \in 1..Len(sr.xs) |->
                 Cat(Cat(IntToText(i - 1), Rep(" ", 4)), IntToText(sr.xs[i]))])

\* json.dumps(d, indent=2) for a dict of single-character keys and naturals
json_dumps(d) ==
    IF d.keys = << >> THEN Lit(<<"{", "}">>)
    ELSE Cat(Cat(Lit(<<"{", NL>>),
                 Join(Lit(<<",", NL>>),
                      [i \in 1..Len(d.keys) |->
                         Cat(Lit(<<" ", " ", "\"", d.keys[i], "\"", ":", " ">>),
                             IntToText(d.xs[i]))])),
             Lit(<<NL, "}">>))

\* str(results) of the fallback branch
str_other(v) ==
    IF v.kind = "int" THEN IntToText(v.xs[1])
    ELSE Lit(<<"<","o","b","j","e","c","t",">">>)

----------------------------------------------------------------------------
(* State                                                                   *)

VARIABLES
    ai_prompt,    \* advisor.ai_prompt: the accumulated prompt buffer
    result_file,  \* ai_interpretation.docx: [state, paragraphs]
    last,         \* the outcome of the last call, as its caller observes it
    log,          \* the texts appended since the buffer was last empty
    service       \* what the Ollama service does with a request

vars == <<ai_prompt, result_file, last, log, service>>

\* self.max_chars
max_chars == 32000
\* add_to_ai_prompt: preview caps
max_preview_length == 100
max_rows == 50
max_items == 100

NoText == << >>

\* What a call leaves for its caller and its environment to see.
\*   op       the operation called
\*   ok       TRUE: it returned ret; FALSE: it raised exc with message msg
\*   msg      the message, as the sequence of its fixed parts and of the
\*            values formatted into it
\*   keys     the config keys the message names, in the order it names them
\*   arg, opt the call's arguments
\*   pre      the buffer when the call started
\*   effects  what the call did outside the buffer, in order:
\*            "POST" (one HTTP request), "SAVE" (the result file written),
\*            "RESET" (the buffer cleared)
\*   payload  the JSON body of the request, when one was sent
\*   lines    the lines the service streamed back
\*   full_response  the tokens concatenated by call_ollama
\*   stored   the result file when the call started
Outcome(op, ok, exc, msg, keys, arg, opt, ret, pre, effects, payload, lines, full) ==
    [op |-> op, ok |-> ok, exc |-> exc, msg |-> msg, keys |-> keys,
     arg |-> arg, opt |-> opt, ret |-> ret, pre |-> pre, effects |-> effects,
     payload |-> payload, lines |-> lines, full_response |-> full,
     stored |-> result_file]

NoPayload == [model |-> "", system_message |-> << >>, user_prompt |-> NoText,
              stream |-> FALSE]

Returned(op, arg, opt, ret, pre) ==
    Outcome(op, TRUE, "", << >>, << >>, arg, opt, ret, pre, << >>,
            NoPayload, << >>, NoText)

Raised(op, exc, msg, keys, arg, opt, pre) ==
    Outcome(op, FALSE, exc, msg, keys, arg, opt, NoText, pre, << >>,
            NoPayload, << >>, NoText)

\* What the service does with one request.
\*   post    "response": requests.post returns a response with status;
\*           otherwise the exception it raises
\*   status  the HTTP status of the response
\*   lines   the lines streamed back
\*   save    "ok": doc.save writes the file; "denied": it raises before
\*           writing; "partial": it raises with the file half written
Env(post, status, lines, save) ==
    [post |-> post, status |-> status, lines |-> lines, save |-> save]

Init ==
    /\ service = Env("response", 200, << >>, "ok")
    /\ ai_prompt = NoText
    /\ result_file = [state |-> "absent", paragraphs |-> << >>]
    /\ last = Returned("__init__", NoText, NoText, NoText, NoText)
    /\ log = << >>

----------------------------------------------------------------------------
(* Prompt accumulator                                                      *)

\* (variant: the block is added without its line terminator)
AppendLine_NoTerminator(prompt, s) == Cat(prompt, s)

\* self.ai_prompt += results_string + "\n"

AppendLine(prompt, s) == Cat(prompt, Cat(s, Rep(NL, 1)))

\* f" ... [and {n} more]" and f"\n... [and {n} more]"
AndMore(lead, n) ==
    Cat(Cat(Cat(lead, Lit(<<".", ".", ".", " ", "[", "a", "n", "d", " ">>)),
            IntToText(n)),
        Lit(<<" ", "m", "o", "r", "e", "]">>))

\* f"[DataFrame: {r} rows x {c} cols] showing first {n} rows\n"
FrameHeader(r, c, n) ==
    Cat(Cat(Cat(Cat(Cat(Cat(
        Lit(<<"[","D","a","t","a","F","r","a","m","e",":"," ">>),
        IntToText(r)),
        Lit(<<" ","r","o","w","s"," ","x"," ">>)),
        IntToText(c)),
        Lit(<<" ","c","o","l","s","]"," ","s","h","o","w","i","n","g"," ",
              "f","i","r","s","t"," ">>)),
        IntToText(n)),
        Lit(<<" ","r","o","w","s",NL>>))

\* f"{context} {results_string}" / f"{context}\n{results_string}"
WithContext(context, sep, s) ==
    IF context # NoText THEN Cat(Cat(context, Rep(sep, 1)), s) ELSE s

\* The text add_to_ai_prompt builds for results, or the exception that
\* building it raises.
results_string(results, context) ==
    LET k == results.kind
        n == PyLen(results)
    IN
    IF k \in {"str", "list", "tuple", "ndarray"}
    THEN LET s == IF k # "str"
                  THEN IF n > max_preview_length
                       THEN AndMore(Cat(JoinStr(Head_n(results, max_preview_length).xs),
                                        Rep(" ", 1)),
                                    n - max_preview_length)
                       ELSE JoinStr(results.xs)
                  ELSE results.text
         IN  [ok |-> TRUE, text |-> WithContext(context, " ", s), exc |-> ""]
    ELSE IF k \in {"DataFrame", "Series"}
    THEN LET s == IF k = "DataFrame"
                  THEN IF n > max_rows
                       THEN Cat(FrameHeader(n, results.ncols, max_rows),
                                DataFrame_to_string(Head_n(results, max_rows)))
                       ELSE DataFrame_to_string(results)
                  ELSE IF n > max_items
                       THEN AndMore(Cat(Series_to_string(Head_n(results, max_items)),
                                        Rep(NL, 1)),
                                    n - max_items)
                       ELSE Series_to_string(results)
         IN  [ok |-> TRUE, text |-> WithContext(context, NL, s), exc |-> ""]
    ELSE IF k = "dict"
    THEN IF results.ok
         THEN [ok |-> TRUE, text |-> WithContext(context, NL, json_dumps(results)),
               exc |-> ""]
         ELSE \* json.dumps raises outside any try block
              [ok |-> FALSE, text |-> NoText, exc |-> "TypeError"]
    ELSE IF results.ok
         THEN [ok |-> TRUE, text |-> WithContext(context, " ", str_other(results)),
               exc |-> ""]
         ELSE [ok |-> FALSE, text |-> NoText, exc |-> "ValueError"]

\* (variant: the value returned is the preview that was rendered)
add_to_ai_prompt_ReturnsPreview(results, context) ==
    LET r == results_string(results, context) IN
    IF r.ok
    THEN /\ ai_prompt' = AppendLine(ai_prompt, r.text)
         /\ log' = Append(log, r.text)
         /\ last' = Returned("add_to_ai_prompt", results, context,
                             IF results.kind \in {"list", "tuple", "ndarray"}
                             THEN Head_n(results, max_preview_length)
                             ELSE results,
                             ai_prompt)
         /\ UNCHANGED result_file
    ELSE /\ last' = Raised("add_to_ai_prompt", r.exc, << >>, << >>, results,
                           context, ai_prompt)
         /\ UNCHANGED <<ai_prompt, log, result_file>>

\* (variant: the label is added to the buffer before the value is converted)
add_to_ai_prompt_LabelFirst(results, context) ==
    LET r == results_string(results, context) IN
    IF r.ok
    THEN /\ ai_prompt' = AppendLine(ai_prompt, r.text)
         /\ log' = Append(log, r.text)
         /\ last' = Returned("add_to_ai_prompt", results, context, results, ai_prompt)
         /\ UNCHANGED result_file
    ELSE /\ ai_prompt' = AppendLine(ai_prompt, context)
         /\ last' = Raised("add_to_ai_prompt", r.exc, << >>, << >>, results,
                           context, ai_prompt)
         /\ UNCHANGED <<log, result_file>>

\* AIPolicyAdvisor.add_to_ai_prompt(results, context)
add_to_ai_prompt(results, context) ==
    LET r == results_string(results, context) IN
    IF r.ok
    THEN /\ ai_prompt' = AppendLine(ai_prompt, r.text)
         /\ log' = Append(log, r.text)
         /\ last' = Returned("add_to_ai_prompt", results, context, results, ai_prompt)
         /\ UNCHANGED result_file
    ELSE /\ last' = Raised("add_to_ai_prompt", r.exc,
                           IF r.exc = "ValueError"
                           THEN <<"Invalid data type. Please use strings, lists, arrays, dataframes, or dictionaries. Error: ">>
                           ELSE <<"Object is not JSON serializable">>,
                           << >>, results, context, ai_prompt)
         /\ UNCHANGED <<ai_prompt, log, result_file>>

\* A file as read_file_for_ai finds it.
\*   ext     the extension of file_path: "csv", "md" or another
\*   exists  FALSE: opening it raises FileNotFoundError
\*   reads   FALSE: reading or parsing it raises (bad encoding, bad CSV)
\*   table   the DataFrame pd.read_csv gives;  text  what file.read() gives
File(ext, exists, reads, table, text) ==
    [ext |-> ext, exists |-> exists, reads |-> reads, table |-> table,
     text |-> text]

\* (variant: a CSV file is rendered as add_to_ai_prompt renders a DataFrame,
\* the header only when the rows exceed max_rows)
file_text_HeaderOnlyWhenOver(file, mr) ==
    IF file.ext \in {"csv", "md"} /\ ~file.exists
    THEN [ok |-> FALSE, text |-> NoText, exc |-> "FileNotFoundError",
          msg |-> <<"File not found: ">>]
    ELSE IF file.ext \in {"csv", "md"} /\ ~file.reads
    THEN [ok |-> FALSE, text |-> NoText, exc |-> "Exception",
          msg |-> <<"Error reading file: ">>]
    ELSE IF file.ext = "csv"
    THEN LET df == file.table
             n  == PyLen(df)
         IN  [ok |-> TRUE,
              text |-> IF n > mr
                       THEN Cat(FrameHeader(n, df.ncols, mr),
                                DataFrame_to_string(Head_n(df, mr)))
                       ELSE DataFrame_to_string(df),
              exc |-> "", msg |-> << >>]
    ELSE IF file.ext = "md"
    THEN [ok |-> TRUE, text |-> file.text, exc |-> "", msg |-> << >>]
    ELSE [ok |-> FALSE, text |-> NoText, exc |-> "Exception",
          msg |-> <<"Error reading file: ",
                    "Invalid file type. Please use a CSV or markdown file.">>]

\* The text read_file_for_ai builds, or the exception it raises.
file_text(file, mr) ==
    IF file.ext \in {"csv", "md"} /\ ~file.exists
    THEN [ok |-> FALSE, text |-> NoText, exc |-> "FileNotFoundError",
          msg |-> <<"File not found: ">>]
    ELSE IF file.ext \in {"csv", "md"} /\ ~file.reads
    THEN [ok |-> FALSE, text |-> NoText, exc |-> "Exception",
          msg |-> <<"Error reading file: ">>]
    ELSE IF file.ext = "csv"
    THEN LET df == file.table
             n  == PyLen(df)
             header == FrameHeader(n, df.ncols, IF n < mr THEN n ELSE mr)
         IN  [ok |-> TRUE,
              text |-> IF n > mr
                       THEN Cat(header, DataFrame_to_string(Head_n(df, mr)))
                       ELSE Cat(header, DataFrame_to_string(df)),
              exc |-> "", msg |-> << >>]
    ELSE IF file.ext = "md"
    THEN [ok |-> TRUE, text |-> file.text, exc |-> "", msg |-> << >>]
    ELSE \* the ValueError is raised inside the try block and caught by
         \* its own "except Exception"
         [ok |-> FALSE, text |-> NoText, exc |-> "Exception",
          msg |-> <<"Error reading file: ",
                    "Invalid file type. Please use a CSV or markdown file.">>]

read_file_for_ai(file, mr) ==
    LET r == file_text(file, mr) IN
    IF r.ok
    THEN /\ ai_prompt' = AppendLine(ai_prompt, r.text)
         /\ log' = Append(log, r.text)
         /\ last' = Returned("read_file_for_ai", file, mr, r.text, ai_prompt)
         /\ UNCHANGED result_file
    ELSE /\ last' = Raised("read_file_for_ai", r.exc, r.msg, << >>, file, mr,
                           ai_prompt)
         /\ UNCHANGED <<ai_prompt, log, result_file>>

----------------------------------------------------------------------------
(* Advisory request orchestrator                                           *)

\* A line of the streamed response, as response.iter_lines() yields it.
\*   kind  "obj"          a JSON object; hasresp: it has a "response" key
\*                        holding token; done: its "done" key ("absent",
\*                        "true" or "false")
\*         "blank"        an empty line
\*         "badjson"      text that json.loads rejects (JSONDecodeError)
\*         "undecodable"  bytes that are not UTF-8 (UnicodeDecodeError)
\*         "nonobject"    valid JSON that is no object: a list, a number,
\*                        a string, null (TypeError or AttributeError)
\*         "ReadTimeout", "ConnectionError", "ChunkedEncodingError"
\*                        iter_lines() raises instead of yielding a line
StreamLine(kind, hasresp, token, done) ==
    [kind |-> kind, hasresp |-> hasresp, token |-> token, done |-> done]

Fragment(hasresp, token, done) == StreamLine("obj", hasresp, token, done)
Junk(kind) == StreamLine(kind, FALSE, NoText, "absent")

ReadErrors == {"ReadTimeout", "ConnectionError", "ChunkedEncodingError"}

\* The streaming loop of call_ollama from line i on, full being the tokens
\* concatenated so far: the response it returns or the exception that
\* leaves the loop.
\* (variant: the loop does not stop at done = true)
RECURSIVE StreamLoop_NoBreak(_, _, _)
StreamLoop_NoBreak(lines, i, full) ==
    IF i > Len(lines) THEN [ok |-> TRUE, exc |-> "", full |-> full]
    ELSE LET l == lines[i] IN
         IF l.kind \in ReadErrors
         THEN [ok |-> FALSE, exc |-> l.kind, full |-> full]
         ELSE IF l.kind = "blank"
         THEN StreamLoop_NoBreak(lines, i + 1, full)
         ELSE IF l.kind = "undecodable"
         THEN [ok |-> FALSE, exc |-> "UnicodeDecodeError", full |-> full]
         ELSE IF l.kind = "badjson"
         THEN StreamLoop_NoBreak(lines, i + 1, full)
         ELSE IF l.kind = "nonobject"
         THEN [ok |-> FALSE, exc |-> "TypeError", full |-> full]
         ELSE StreamLoop_NoBreak(lines, i + 1,
                                 IF l.hasresp THEN Cat(full, l.token) ELSE full)

RECURSIVE StreamLoop(_, _, _)
StreamLoop(lines, i, full) ==
    IF i > Len(lines) THEN [ok |-> TRUE, exc |-> "", full |-> full]
    ELSE LET l == lines[i] IN
         IF l.kind \in ReadErrors
         THEN \* iter_lines() raises
              [ok |-> FALSE, exc |-> l.kind, full |-> full]
         ELSE IF l.kind = "blank"
         THEN \* if line: is false
              StreamLoop(lines, i + 1, full)
         ELSE IF l.kind = "undecodable"
         THEN \* line.decode("utf-8") raises; only JSONDecodeError is caught
              [ok |-> FALSE, exc |-> "UnicodeDecodeError", full |-> full]
         ELSE IF l.kind = "badjson"
         THEN \* except json.JSONDecodeError: continue
              StreamLoop(lines, i + 1, full)
         ELSE IF l.kind = "nonobject"
         THEN \* "response" in data or data.get raises
              [ok |-> FALSE, exc |-> "TypeError", full |-> full]
         ELSE LET full2 == IF l.hasresp THEN Cat(full, l.token) ELSE full IN
              IF l.done = "true"
              THEN [ok |-> TRUE, exc |-> "", full |-> full2]
              ELSE StreamLoop(lines, i + 1, full2)

\* The messages of the except clauses of call_ollama.
ollama_error(exc, detail) ==
    IF exc = "ConnectionError"
    THEN <<"Could not connect to Ollama. Make sure Ollama is installed and running.">>
    ELSE IF exc = "ReadTimeout"
    THEN <<"OLLAMA TIMEOUT (7 minutes)">>
    ELSE <<"Error connecting to Ollama: ">> \o detail

\* (variant: a request that cannot connect is sent a second time)
call_ollama_Retry(model, system_message, user_prompt, env) ==
    LET payload == [model |-> model, system_message |-> system_message,
                    user_prompt |-> user_prompt, stream |-> TRUE]
    IN
    IF env.post # "response"
    THEN [ok |-> FALSE, msg |-> ollama_error(env.post, <<env.post>>),
          full |-> NoText, posts |-> <<"POST", "POST">>, payload |-> payload]
    ELSE IF env.status # 200
    THEN [ok |-> FALSE,
          msg |-> ollama_error("Exception",
                     <<"Ollama API request failed with status ", env.status>>),
          full |-> NoText, posts |-> <<"POST">>, payload |-> payload]
    ELSE LET r == StreamLoop(env.lines, 1, NoText) IN
         IF r.ok
         THEN [ok |-> TRUE, msg |-> << >>, full |-> r.full,
               posts |-> <<"POST">>, payload |-> payload]
         ELSE [ok |-> FALSE, msg |-> ollama_error(r.exc, <<r.exc>>),
               full |-> r.full, posts |-> <<"POST">>, payload |-> payload]

\* call_ollama(model, system_message, user_prompt, stream=True): issues one
\* request and returns the concatenated tokens, or raises Exception(msg).
call_ollama(model, system_message, user_prompt, env) ==
    LET payload == [model |-> model, system_message |-> system_message,
                    user_prompt |-> user_prompt, stream |-> TRUE]
    IN
    IF env.post # "response"
    THEN [ok |-> FALSE, msg |-> ollama_error(env.post, <<env.post>>),
          full |-> NoText, posts |-> <<"POST">>, payload |-> payload]
    ELSE IF env.status # 200
    THEN \* raised inside the try block, caught by "except Exception"
         [ok |-> FALSE,
          msg |-> ollama_error("Exception",
                     <<"Ollama API request failed with status ", env.status>>),
          full |-> NoText, posts |-> <<"POST">>, payload |-> payload]
    ELSE LET r == StreamLoop(env.lines, 1, NoText) IN
         IF r.ok
         THEN [ok |-> TRUE, msg |-> << >>, full |-> r.full,
               posts |-> <<"POST">>, payload |-> payload]
         ELSE [ok |-> FALSE, msg |-> ollama_error(r.exc, <<r.exc>>),
               full |-> r.full, posts |-> <<"POST">>, payload |-> payload]


\* Config: a Python dict, here a function from its keys to str values
\* ("" is the empty string).
required_keys == <<"data_background", "policy_question", "model">>

EmptyConfig == [k \in {} |-> ""]

\* (variant: the missing keys are collected in reverse)
missing_keys_Reversed(config) ==
    LET m == SelectSeq(required_keys, LAMBDA k : k \notin DOMAIN config)
    IN  [i \in 1..Len(m) |-> m[Len(m) + 1 - i]]

\* [key for key in required_keys if key not in config]
missing_keys(config) ==
    SelectSeq(required_keys, LAMBDA k : k \notin DOMAIN config)

ConfigRequiredMsg ==
    <<"CONFIG DICTIONARY REQUIRED! You must pass a config dictionary. CONFIG = {",
      "data_background", "policy_question", "model",
      "} Then call: ai_policy_advisor(CONFIG)">>

\* (variant: the model is checked before the buffer)
validate_ModelFirst(config, prompt) ==
    IF DOMAIN config = {}
    THEN [ok |-> FALSE, exc |-> "ValueError", msg |-> ConfigRequiredMsg,
          keys |-> required_keys]
    ELSE IF missing_keys(config) # << >>
    THEN [ok |-> FALSE, exc |-> "ValueError",
          msg |-> <<"MISSING REQUIRED CONFIG KEYS: ", missing_keys(config),
                    "Your config dictionary must include all these keys: ",
                    required_keys, "Current config: ", config>>,
          keys |-> missing_keys(config)]
    ELSE IF config["model"] = ""
    THEN [ok |-> FALSE, exc |-> "ValueError",
          msg |-> <<"Please pass an AI model name as the model parameter.">>,
          keys |-> <<"model">>]
    ELSE IF prompt = NoText
    THEN [ok |-> FALSE, exc |-> "ValueError",
          msg |-> <<"Please provide a prompt to the ai_policy_advisor function.">>,
          keys |-> << >>]
    ELSE [ok |-> TRUE, exc |-> "", msg |-> << >>, keys |-> << >>]

\* (variant: the message for an empty config does not list the keys)
validate_NoKeysListed(config, prompt) ==
    IF DOMAIN config = {}
    THEN [ok |-> FALSE, exc |-> "ValueError",
          msg |-> <<"CONFIG DICTIONARY REQUIRED!">>, keys |-> << >>]
    ELSE IF missing_keys(config) # << >>
    THEN [ok |-> FALSE, exc |-> "ValueError",
          msg |-> <<"MISSING REQUIRED CONFIG KEYS: ", missing_keys(config),
                    "Your config dictionary must include all these keys: ",
                    required_keys, "Current config: ", config>>,
          keys |-> missing_keys(config)]
    ELSE IF prompt = NoText
    THEN [ok |-> FALSE, exc |-> "ValueError",
          msg |-> <<"Please provide a prompt to the ai_policy_advisor function.">>,
          keys |-> << >>]
    ELSE IF config["model"] = ""
    THEN [ok |-> FALSE, exc |-> "ValueError",
          msg |-> <<"Please pass an AI model name as the model parameter.">>,
          keys |-> <<"model">>]
    ELSE [ok |-> TRUE, exc |-> "", msg |-> << >>, keys |-> << >>]

\* The checks of ai_policy_advisor that precede the request, in the order
\* the code makes them: the first that fails raises ValueError.
validate(config, prompt) ==
    IF DOMAIN config = {}
    THEN \* if not config
         [ok |-> FALSE, exc |-> "ValueError", msg |-> ConfigRequiredMsg,
          keys |-> required_keys]
    ELSE IF missing_keys(config) # << >>
    THEN [ok |-> FALSE, exc |-> "ValueError",
          msg |-> <<"MISSING REQUIRED CONFIG KEYS: ", missing_keys(config),
                    "Your config dictionary must include all these keys: ",
                    required_keys, "Current config: ", config>>,
          keys |-> missing_keys(config)]
    ELSE IF prompt = NoText
    THEN \* if not ai_prompt or ai_prompt == ""
         [ok |-> FALSE, exc |-> "ValueError",
          msg |-> <<"Please provide a prompt to the ai_policy_advisor function.">>,
          keys |-> << >>]
    ELSE IF config["model"] = ""
    THEN \* if not model_name
         [ok |-> FALSE, exc |-> "ValueError",
          msg |-> <<"Please pass an AI model name as the model parameter.">>,
          keys |-> <<"model">>]
    ELSE [ok |-> TRUE, exc |-> "", msg |-> << >>, keys |-> << >>]

\* The notices printed for an empty data_background or policy_question.
notices(config) ==
    (IF config["data_background"] = "" THEN <<"PRINT background notice">>
     ELSE << >>)
    \o (IF config["policy_question"] = "" THEN <<"PRINT question notice">>
        ELSE << >>)

\* The system message, as the sequence of its fixed parts and of the config
\* values formatted into it.
system_message(config) ==
    <<"You are a policy analyst/data scientist assisting in interpreting the data. ">>
    \o (IF config["data_background"] # ""
        THEN <<"Here is the data background: ", config["data_background"]>>
        ELSE <<"">>)
    \o <<" ">>
    \o (IF config["policy_question"] # ""
        THEN <<"I need help answering a specific policymaking/decision-making question: ",
               config["policy_question"]>>
        ELSE <<"">>)
    \o <<" Focus on synthesizing the data results and providing insights across results, backing up every interpretation with clear evidence and rationale. Make sure to double and triple check that any numbers you repeat accurately reflect the numbers specifically given to you in the prompt. Provide a strong summary at the end.">>

\* The prompt text sent: the buffer, cut to its first max_chars characters
\* when its UTF-8 encoding is longer than max_chars bytes.
prompt_text(prompt) ==
    IF Utf8Len(prompt) > max_chars THEN Slice(prompt, max_chars) ELSE prompt

\* The disclaimer: one long line (held as a single symbol, it is never cut),
\* an empty line, and the header line.
disclaimer ==
    Lit(<<"----- Disclaimer: This interpretation was produced by a Large Language Model running locally via Ollama [...] -----",
          NL, NL, "## AI Policy Advisor", NL>>)

\* (variant: the buffer is not cleared)
finish_NoReset(ai_response, prompt, file, save) ==
    LET ai_interpretation == Cat(disclaimer, ai_response) IN
    IF save = "ok"
    THEN [ok |-> TRUE, exc |-> "", ret |-> ai_interpretation,
          file |-> [state |-> "saved", paragraphs |-> SplitLines(ai_interpretation)],
          prompt |-> prompt, effects |-> <<"SAVE">>]
    ELSE [ok |-> FALSE, exc |-> "OSError", ret |-> NoText,
          file |-> IF save = "partial"
                   THEN [state |-> "damaged", paragraphs |-> << >>] ELSE file,
          prompt |-> prompt,
          effects |-> IF save = "partial" THEN <<"SAVE">> ELSE << >>]

\* (variant: the buffer is cleared before the document is saved)
finish_ResetBeforeSave(ai_response, prompt, file, save) ==
    LET ai_interpretation == Cat(disclaimer, ai_response) IN
    IF save = "ok"
    THEN [ok |-> TRUE, exc |-> "", ret |-> ai_interpretation,
          file |-> [state |-> "saved", paragraphs |-> SplitLines(ai_interpretation)],
          prompt |-> NoText, effects |-> <<"RESET", "SAVE">>]
    ELSE [ok |-> FALSE, exc |-> "OSError", ret |-> NoText,
          file |-> IF save = "partial"
                   THEN [state |-> "damaged", paragraphs |-> << >>] ELSE file,
          prompt |-> NoText,
          effects |-> IF save = "partial" THEN <<"RESET", "SAVE">> ELSE <<"RESET">>]

\* (variant: the paragraphs are added to the document already stored)
finish_AppendToStore(ai_response, prompt, file, save) ==
    LET ai_interpretation == Cat(disclaimer, ai_response) IN
    IF save = "ok"
    THEN [ok |-> TRUE, exc |-> "", ret |-> ai_interpretation,
          file |-> [state |-> "saved",
                    paragraphs |-> file.paragraphs \o SplitLines(ai_interpretation)],
          prompt |-> NoText, effects |-> <<"SAVE", "RESET">>]
    ELSE [ok |-> FALSE, exc |-> "OSError", ret |-> NoText,
          file |-> IF save = "partial"
                   THEN [state |-> "damaged", paragraphs |-> << >>] ELSE file,
          prompt |-> prompt,
          effects |-> IF save = "partial" THEN <<"SAVE">> ELSE << >>]

\* The end of ai_policy_advisor, once call_ollama has returned ai_response:
\* the document is built and saved, the buffer is cleared, the text returned.
finish(ai_response, prompt, file, save) ==
    LET ai_interpretation == Cat(disclaimer, ai_response) IN
    IF save = "ok"
    THEN [ok |-> TRUE, exc |-> "", ret |-> ai_interpretation,
          file |-> [state |-> "saved", paragraphs |-> SplitLines(ai_interpretation)],
          prompt |-> NoText, effects |-> <<"SAVE", "RESET">>]
    ELSE \* doc.save raises: the statements after it are not reached
         [ok |-> FALSE, exc |-> "OSError", ret |-> NoText,
          file |-> IF save = "partial"
                   THEN [state |-> "damaged", paragraphs |-> << >>] ELSE file,
          prompt |-> prompt,
          effects |-> IF save = "partial" THEN <<"SAVE">> ELSE << >>]

\* (variant: when the exchange fails, the tokens received so far are saved)
ai_policy_advisor_SavesPartial(config) ==
    LET env == service'
        v   == validate(config, ai_prompt)
    IN
    IF ~v.ok
    THEN /\ last' = Raised("ai_policy_advisor", v.exc, v.msg, v.keys, config,
                           NoText, ai_prompt)
         /\ UNCHANGED <<ai_prompt, log, result_file>>
    ELSE
    LET r == call_ollama(config["model"], system_message(config),
                         prompt_text(ai_prompt), env)
    IN
    IF ~r.ok
    THEN /\ last' = Outcome("ai_policy_advisor", FALSE, "Exception", r.msg, << >>,
                            config, NoText, NoText, ai_prompt,
                            notices(config) \o r.posts \o <<"SAVE">>, r.payload,
                            IF env.post = "response" /\ env.status = 200
                            THEN env.lines ELSE << >>,
                            r.full)
         /\ result_file' = [state |-> "saved",
                            paragraphs |-> SplitLines(Cat(disclaimer, r.full))]
         /\ UNCHANGED <<ai_prompt, log>>
    ELSE
    LET f == finish(r.full, ai_prompt, result_file, env.save) IN
    /\ last' = Outcome("ai_policy_advisor", f.ok, f.exc,
                       IF f.ok THEN << >> ELSE <<"doc.save failed">>, << >>,
                       config, NoText, f.ret, ai_prompt,
                       notices(config) \o r.posts \o f.effects, r.payload,
                       env.lines, r.full)
    /\ ai_prompt' = f.prompt
    /\ result_file' = f.file
    /\ log' = IF f.prompt = NoText THEN << >> ELSE log

\* AIPolicyAdvisor.ai_policy_advisor(config); the service answers the
\* request as service' says.
ai_policy_advisor(config) ==
    LET env == service'
        v   == validate(config, ai_prompt)
    IN
    IF ~v.ok
    THEN /\ last' = Raised("ai_policy_advisor", v.exc, v.msg, v.keys, config,
                           NoText, ai_prompt)
         /\ UNCHANGED <<ai_prompt, log, result_file>>
    ELSE
    LET r == call_ollama(config["model"], system_message(config),
                         prompt_text(ai_prompt), env)
    IN
    IF ~r.ok
    THEN /\ last' = Outcome("ai_policy_advisor", FALSE, "Exception", r.msg, << >>,
                            config, NoText, NoText, ai_prompt,
                            notices(config) \o r.posts, r.payload,
                            IF env.post = "response" /\ env.status = 200
                            THEN env.lines ELSE << >>,
                            r.full)
         /\ UNCHANGED <<ai_prompt, log, result_file>>
    ELSE
    LET f == finish(r.full, ai_prompt, result_file, env.save) IN
    /\ last' = Outcome("ai_policy_advisor", f.ok, f.exc,
                       IF f.ok THEN << >> ELSE <<"doc.save failed">>, << >>,
                       config, NoText, f.ret, ai_prompt,
                       notices(config) \o r.posts \o f.effects, r.payload,
                       env.lines, r.full)
    /\ ai_prompt' = f.prompt
    /\ result_file' = f.file
    /\ log' = IF f.prompt = NoText THEN << >> ELSE log

\* The module-level functions, bound to the one shared advisor.  config is
\* [none |-> TRUE] for a call without a config.
NoConfig == [none |-> TRUE, dict |-> EmptyConfig]
Config(d) == [none |-> FALSE, dict |-> d]

global_ai_policy_advisor(config) ==
    ai_policy_advisor(IF config.none THEN EmptyConfig ELSE config.dict)

global_add_to_ai_prompt(results, context) == add_to_ai_prompt(results, context)

global_read_file_for_ai(file_path, mr) == read_file_for_ai(file_path, mr)

----------------------------------------------------------------------------------------------------------------------------------------
(* Inputs                                                                  *)

\* how many elements or rows beyond a preview cap the long inputs hold
Over == 1

ctx == Lit(<<"c", "t", "x">>)

Ints(n) == [i \in 1..n |-> E_int(i % 10)]

\* n elements: "a", "b", then empty strings, the last one "z"
Sparse(n) ==
    [i \in 1..n |-> E_str(IF i = 1 THEN Rep("a", 1)
                          ELSE IF i = 2 THEN Rep("b", 1)
                          ELSE IF i = n THEN Rep("z", 1) ELSE NoText)]

SmallFrame == PyFrame(2, << <<1, 2>>, <<3, 4>> >>)
WideFrame == PyFrame(3, << <<1, 2, 3>>, <<4, 5, 6>>, <<7, 8, 9>> >>)
NoFrame == PyFrame(0, << >>)

MdFile == File("md", TRUE, TRUE, NoFrame, Lit(<<"#", " ", "t", NL>>))
CsvFile == File("csv", TRUE, TRUE, SmallFrame, NoText)
WideCsvFile == File("csv", TRUE, TRUE, WideFrame, NoText)

BadFiles ==
    { File("md", FALSE, TRUE, NoFrame, NoText),
      File("md", TRUE, FALSE, NoFrame, NoText),
      File("csv", FALSE, TRUE, NoFrame, NoText),
      File("csv", TRUE, FALSE, NoFrame, NoText),
      File("txt", TRUE, TRUE, NoFrame, Rep("a", 1)) }

\* every dict over a subset of the required keys, with empty or non-empty
\* values, a dict holding only a key that is not required, and no config
AllConfigs ==
    { Config(d) : d \in UNION { [S -> {"", "x"}] :
                      S \in SUBSET {required_keys[i] : i \in 1..3} } }
    \cup { Config([k \in {"extra"} |-> "x"]), NoConfig }

ValidConfig == Config([k \in {required_keys[i] : i \in 1..3} |-> "x"])

Hel  == Fragment(TRUE, Lit(<<"H", "e", "l">>), "absent")
lo   == Fragment(TRUE, Lit(<<"l", "o">>), "false")
done == Fragment(FALSE, NoText, "true")
bang == Fragment(TRUE, Rep("!", 1), "true")
para == Fragment(TRUE, Lit(<<"a", NL, NL, "b", NL>>), "true")

OkEnv == Env("response", 200, <<Hel, lo, done>>, "ok")

\* the responses the orchestrator is run against
SomeEnvs ==
    { Env(p, 200, << >>, "ok") : p \in {"ConnectionError", "ReadTimeout", "InvalidURL"} }
    \cup { Env("response", st, << >>, "ok") : st \in {404, 500} }
    \cup { Env("response", 200, ls, "ok") :
             ls \in { << >>, <<para>>,
                      <<Junk("blank"), Hel, Junk("badjson"), bang, lo>>,
                      <<Hel, Junk("undecodable"), lo>>, <<Hel, Junk("nonobject")>>,
                      <<Hel, Junk("ConnectionError")>>,
                      <<Hel, Junk("ChunkedEncodingError")>>,
                      <<Junk("ReadTimeout")>> } }
    \cup { Env("response", 200, <<Hel, lo, done>>, sv) :
             sv \in {"ok", "denied", "partial"} }

StreamAlphabet ==
    { Hel, lo, done, bang, Junk("badjson"), Junk("undecodable"),
      Junk("nonobject"), Junk("ReadTimeout") }

AllStreams == UNION { [1..n -> StreamAlphabet] : n \in 0..MaxFrags }

----------------------------------------------------------------------------
(* Specifications                                                          *)

\* The accumulator's operations over given sets of argument pairs; the
\* buffer takes at most cap blocks between two resets.
Accumulate(cap, appends) ==
    /\ Len(log) < cap
    /\ \E a \in appends : global_add_to_ai_prompt(a[1], a[2])
    /\ UNCHANGED service

Load(cap, loads) ==
    /\ Len(log) < cap
    /\ \E l \in loads : global_read_file_for_ai(l[1], l[2])
    /\ UNCHANGED service

\* A run for each of the given pairs of a config and of what the service
\* does with the request.
Run(runs) ==
    \E r \in runs : /\ service' = r[2]
                    /\ global_ai_policy_advisor(r[1])

\* The orchestrator: every config and every kind of response, over buffers
\* under, at and over the truncation cap.
RunAppends ==
    ({ PyStr(t) : t \in {Rep("a", LongRun), Rep("e_acute", WideRun)} } \X {NoText})
    \cup {<<PyObject(FALSE), NoText>>}

RunLoads == { MdFile, File("md", FALSE, TRUE, NoFrame, NoText) } \X {max_rows}

RunRuns == (AllConfigs \X {OkEnv}) \cup ({ValidConfig} \X SomeEnvs)

Next ==
    \/ Accumulate(MaxAppends, RunAppends)
    \/ Load(MaxAppends, RunLoads)
    \/ Run(RunRuns)

Spec == Init /\ [][Next]_vars

\* The accumulator: every kind of value and file, with and without a label.
AccAppends ==
    ({ PyStr(Lit(<<"a", NL, "b">>)), PySeq("list", Ints(3)),
       PySeq("ndarray", Sparse(max_preview_length + Over)),
       PySeq("tuple", Sparse(max_preview_length)), PySeq("list", << >>),
       SmallFrame, PySeries(<<5, 6>>), PyDict(<<"a", "b">>, <<1, 2>>, TRUE),
       PyInt(42), PyDict(<<"a">>, <<1>>, FALSE), PyObject(FALSE) } \X {NoText})
    \cup ({ PyStr(NoText), PyDict(<<"a", "b">>, <<1, 2>>, TRUE),
             PySeq("list", Ints(max_preview_length + Over)) } \X {ctx})

AccLoads ==
    ({MdFile} \X {max_rows}) \cup ({CsvFile} \X {1, 2, max_rows})
    \cup ({WideCsvFile} \X {2, 3}) \cup (BadFiles \X {max_rows})

AccRuns ==
    {NoConfig, ValidConfig} \X { Env("ConnectionError", 200, << >>, "ok"), OkEnv }

NextAcc ==
    \/ Accumulate(MaxAppends, AccAppends)
    \/ Load(MaxAppends, AccLoads)
    \/ Run(AccRuns)

SpecAcc == Init /\ [][NextAcc]_vars

\* The stream: the service answers every request of a behaviour with the
\* same sequence of up to MaxFrags lines.
StreamEnvs == { Env("response", 200, ls, "ok") : ls \in AllStreams }

InitStream ==
    /\ service \in StreamEnvs
    /\ ai_prompt = NoText
    /\ result_file = [state |-> "absent", paragraphs |-> << >>]
    /\ last = Returned("__init__", NoText, NoText, NoText, NoText)
    /\ log = << >>

NextStream ==
    \/ Accumulate(MaxAppends, {<<PyStr(Rep("a", 1)), NoText>>})
    \/ Load(MaxAppends, {MdFile} \X {max_rows})
    \/ /\ UNCHANGED service
       /\ global_ai_policy_advisor(ValidConfig)

SpecStream == InitStream /\ [][NextStream]_vars

----------------------------------------------------------------------------
(* Properties                                                              *)

IsRun == last.op = "ai_policy_advisor"

RequiredSet == {required_keys[i] : i \in 1..Len(required_keys)}

\* the number of HTTP requests the last call issued
Posts == Cardinality({i \in 1..Len(last.effects) : last.effects[i] = "POST"})

\* C1: a run that fails, at whatever stage (validation, connection, timeout,
\* HTTP status, reading the stream, saving the result), leaves the buffer
\* exactly as it was when the run was called.
C1_FailedRunKeepsBuffer ==
    (IsRun /\ ~last.ok) => ai_prompt = last.pre

\* a run reached the last stage, failed to save the result, and the buffer
\* it was called with is still there
C1_Witness ==
    /\ IsRun /\ ~last.ok /\ last.exc = "OSError"
    /\ Posts = 1 /\ last.pre # NoText /\ ai_prompt = last.pre

\* C2: after a run that returns, the buffer is empty, whatever it held,
\* content beyond the truncation cap included.
C2_SuccessfulRunEmptiesBuffer ==
    (IsRun /\ last.ok) => ai_prompt = NoText

\* a run returned after sending only a part of a buffer over the cap
C2_Witness ==
    /\ IsRun /\ last.ok /\ ai_prompt = NoText
    /\ StrLen(last.pre) > max_chars
    /\ last.payload.user_prompt # last.pre

PassesValidation ==
    /\ RequiredSet \subseteq DOMAIN last.arg
    /\ last.arg["model"] # ""
    /\ last.pre # NoText

\* C3: a run that fails a configuration check issues no HTTP request; a run
\* that passes them issues exactly one, whatever the service answers.
C3_OneRequestOrNone ==
    IsRun => /\ Posts = (IF PassesValidation THEN 1 ELSE 0)
             /\ (last.exc = "ValueError" => Posts = 0)

\* the connection failed and the one request was not repeated
C3_Witness ==
    /\ IsRun /\ ~last.ok /\ Posts = 1
    /\ service.post = "ConnectionError"
    /\ last.msg = ollama_error("ConnectionError", << >>)

\* C4, as claimed: the data sent is a prefix of the buffer; a buffer of more
\* than max_chars UTF-8 bytes is cut to at most max_chars bytes, a buffer
\* within the cap is sent whole.  (A text of the model is a sequence of code
\* points, so a prefix of it always ends on a character boundary.)
C4_SentWithinByteCap ==
    (IsRun /\ Posts = 1) =>
        LET sent == last.payload.user_prompt IN
        /\ IsPrefix(sent, last.pre)
        /\ Utf8Len(last.pre) > max_chars => Utf8Len(sent) <= max_chars
        /\ Utf8Len(last.pre) <= max_chars => sent = last.pre

FirstDone(lines) ==
    LET ds == {i \in 1..Len(lines) : lines[i].kind = "obj" /\ lines[i].done = "true"}
    IN  IF ds = {} THEN Len(lines)
        ELSE CHOOSE i \in ds : \A j \in ds : i <= j

TokensUpTo(lines, n) ==
    CatAll([i \in 1..n |-> IF lines[i].kind = "obj" /\ lines[i].hasresp
                           THEN lines[i].token ELSE NoText])

\* C5: when the stream is read to its end or to its first done = true
\* fragment, the full response is the concatenation, in arrival order, of
\* the tokens of the fragments up to and including that fragment; tokens
\* that arrive later are not part of it.
C5_FullResponseIsTokensToFirstDone ==
    (IsRun /\ last.ok) =>
        /\ last.full_response = TokensUpTo(last.lines, FirstDone(last.lines))
        /\ last.ret = Cat(disclaimer, last.full_response)
        /\ last.lines = <<Hel, lo, done>> =>
               last.full_response = Lit(<<"H", "e", "l", "l", "o">>)

\* a token arrived after the first done = true fragment and was left out
C5_Witness ==
    /\ IsRun /\ last.ok
    /\ last.lines = <<Hel, bang, lo>>
    /\ last.full_response = Lit(<<"H", "e", "l", "!">>)

Malformed == {"badjson", "undecodable", "nonobject"}

MalformedBetweenValid(lines) ==
    /\ \A i \in 1..Len(lines) : lines[i].kind \in Malformed \cup {"obj"}
    /\ \E i \in 1..Len(lines) :
         /\ lines[i].kind \in Malformed
         /\ i < FirstDone(lines)
         /\ \E j \in 1..(i - 1) : lines[j].kind = "obj"
         /\ \E j \in (i + 1)..Len(lines) : lines[j].kind = "obj"

\* C6, as claimed: a malformed line of any kind (not JSON, not UTF-8, JSON
\* that is no object) between two valid fragments does not abort the
\* stream: the run succeeds and the full response is that of the valid
\* fragments alone.
C6_MalformedLinesAreSkipped ==
    (IsRun /\ Posts = 1 /\ MalformedBetweenValid(last.lines)) =>
        /\ last.ok
        /\ last.full_response = TokensUpTo(last.lines, FirstDone(last.lines))

Position(k) == CHOOSE i \in 1..Len(required_keys) : required_keys[i] = k

\* C7: a non-empty config that lacks a required key fails with the
\* missing-keys ValueError, which names every absent key and no present
\* one, in the order data_background, policy_question, model.
C7_MissingKeysNamedInOrder ==
    (IsRun /\ DOMAIN last.arg # {} /\ ~(RequiredSet \subseteq DOMAIN last.arg)) =>
        /\ ~last.ok /\ last.exc = "ValueError"
        /\ last.msg[1] = "MISSING REQUIRED CONFIG KEYS: "
        /\ last.msg[2] = last.keys
        /\ {last.keys[i] : i \in 1..Len(last.keys)} = RequiredSet \ DOMAIN last.arg
        /\ \A i, j \in 1..Len(last.keys) :
             i < j => Position(last.keys[i]) < Position(last.keys[j])
        /\ DOMAIN last.arg = {"data_background"} =>
               last.keys = <<"policy_question", "model">>

\* the config of the example: only data_background is given
C7_Witness ==
    /\ IsRun /\ ~last.ok
    /\ DOMAIN last.arg = {"data_background"}
    /\ last.keys = <<"policy_question", "model">>

\* C8: a run with an empty config, or through the module-level function
\* with none, fails with a ValueError whose message lists the three
\* required fields, whatever the buffer holds.
C8_EmptyConfigListsRequiredKeys ==
    (IsRun /\ DOMAIN last.arg = {}) =>
        /\ ~last.ok /\ last.exc = "ValueError"
        /\ \A k \in {"data_background", "policy_question", "model"} :
             \E i \in 1..Len(last.msg) : last.msg[i] = k

\* an empty config was refused while the buffer held data
C8_Witness ==
    /\ IsRun /\ ~last.ok /\ DOMAIN last.arg = {}
    /\ ai_prompt # NoText /\ Posts = 0

EmptyPromptMsg ==
    <<"Please provide a prompt to the ai_policy_advisor function.">>

\* C9: with the three keys present and an empty buffer the run fails with
\* the empty-prompt ValueError whatever the values, an empty model included.
C9_EmptyBufferBeforeModel ==
    (IsRun /\ RequiredSet \subseteq DOMAIN last.arg /\ last.pre = NoText) =>
        /\ ~last.ok /\ last.exc = "ValueError"
        /\ last.msg = EmptyPromptMsg

\* empty model and empty buffer: the empty prompt is what is reported
C9_Witness ==
    /\ IsRun /\ ~last.ok
    /\ RequiredSet \subseteq DOMAIN last.arg
    /\ last.arg["model"] = "" /\ last.pre = NoText
    /\ last.msg = EmptyPromptMsg

Blocks(texts) == CatAll([i \in 1..Len(texts) |-> Cat(texts[i], Rep(NL, 1))])

IsAccumulate == last.op \in {"add_to_ai_prompt", "read_file_for_ai"}

\* C10: the buffer is the concatenation, in call order, of the text of every
\* successful append and load since it was last empty, each followed by one
\* line terminator; a successful call adds its block after the content that
\* was there, which stays as it was.
C10_BufferIsBlocksInCallOrder ==
    /\ ai_prompt = Blocks(log)
    /\ (IsAccumulate /\ last.ok) =>
         /\ log # << >>
         /\ IsPrefix(last.pre, ai_prompt)
         /\ last.pre = Blocks(SubSeq(log, 1, Len(log) - 1))
         /\ StrLen(ai_prompt) = StrLen(last.pre) + StrLen(log[Len(log)]) + 1
    /\ (last.op = "read_file_for_ai" /\ last.ok) => log[Len(log)] = last.ret

\* an append and then a load of another text: two blocks in call order
C10_Witness ==
    /\ last.op = "read_file_for_ai" /\ last.ok
    /\ Len(log) = 2 /\ log[1] # log[2]
    /\ log[1] = json_dumps(PyDict(<<"a", "b">>, <<1, 2>>, TRUE))

\* the text add_to_ai_prompt builds for a DataFrame, its cap of max_rows
\* rows replaced by cap
FrameTextWithCap(df, cap) ==
    IF PyLen(df) > cap
    THEN Cat(FrameHeader(PyLen(df), df.ncols, cap),
             DataFrame_to_string(Head_n(df, cap)))
    ELSE DataFrame_to_string(df)

IsCsvLoad ==
    last.op = "read_file_for_ai" /\ last.ok /\ last.arg.ext = "csv"

Min(a, b) == IF a < b THEN a ELSE b

\* C11, as claimed: a CSV file is loaded as the text add_to_ai_prompt would
\* build for its table with the cap max_rows: the header line only when the
\* table has more rows than the cap.
C11_LoadIsAppendWithCap ==
    IsCsvLoad =>
        /\ last.ret = FrameTextWithCap(last.arg.table, last.opt)
        /\ log[Len(log)] = last.ret

\* C11, as the code has it: the text loaded for a CSV file always starts
\* with the header line, which states the rows, the columns and the smaller
\* of the row count and max_rows; the first min(rows, max_rows) rows follow.
\* It is the text add_to_ai_prompt would build with the cap max_rows exactly
\* when the table has more rows than max_rows; otherwise it is that text
\* with the header line before it.
C11_LoadAlwaysHasHeader ==
    IsCsvLoad =>
        LET df == last.arg.table
            mr == last.opt
            n  == Len(df.rows)
            header == FrameHeader(n, df.ncols, Min(n, mr))
        IN
        /\ last.ret = Cat(header, DataFrame_to_string(Head_n(df, Min(n, mr))))
        /\ log[Len(log)] = last.ret
        /\ Len(SplitLines(last.ret)) = 2 + Min(n, mr)
        /\ n > mr  => last.ret = FrameTextWithCap(df, mr)
        /\ n <= mr => last.ret = Cat(header, FrameTextWithCap(df, mr))
        /\ FrameTextWithCap(df, max_rows)
             = results_string(df, NoText).text

\* a table of two rows loaded with the default cap: the header is there
C11_Witness ==
    /\ IsCsvLoad /\ last.opt = max_rows
    /\ Len(last.arg.table.rows) = 2
    /\ IsPrefix(FrameHeader(2, 2, 2), last.ret)
    /\ last.ret # FrameTextWithCap(last.arg.table, max_rows)

\* C12: an append or a load that raises (a value that cannot be converted,
\* a dict json cannot serialise, a file of another type, a missing file, a
\* file that cannot be read or parsed) leaves the buffer exactly as it was
\* when the call started, and the buffer is still the blocks appended before.
C12_FailedAccumulateKeepsBuffer ==
    (IsAccumulate /\ ~last.ok) =>
        /\ ai_prompt = last.pre
        /\ ai_prompt = Blocks(log)
        /\ last.ret = NoText

\* a missing file was refused while the buffer held an earlier block
C12_Witness ==
    /\ last.op = "read_file_for_ai" /\ ~last.ok
    /\ last.exc = "FileNotFoundError"
    /\ Len(log) >= 1 /\ ai_prompt = last.pre /\ ai_prompt # NoText

\* the error condition a message of call_ollama stands for: the message of
\* one of the specific except clauses, the status message on its own, or a
\* message built by the final "except Exception" clause
ErrorKind(msg) ==
    IF msg = ollama_error("ConnectionError", << >>) THEN "Connectivity"
    ELSE IF msg = ollama_error("ReadTimeout", << >>) THEN "Timeout"
    ELSE IF msg # << >> /\ msg[1] = "Ollama API request failed with status "
    THEN "RemoteFailure"
    ELSE "CatchAll"

\* C13, as claimed: a run with a valid config and a non-empty buffer fails
\* only with a connectivity error (the connection cannot be established), a
\* timeout error (the time budget is exceeded) or a remote failure carrying
\* the status (the status is not 200), never with an error built by the
\* catch-all clause.
C13_HttpFailuresAreDistinct ==
    (IsRun /\ PassesValidation /\ ~last.ok) =>
        /\ ErrorKind(last.msg) \in {"Connectivity", "Timeout", "RemoteFailure"}
        /\ service.post = "ConnectionError" => ErrorKind(last.msg) = "Connectivity"
        /\ service.post = "ReadTimeout" => ErrorKind(last.msg) = "Timeout"
        /\ (service.post = "response" /\ service.status # 200) =>
               /\ ErrorKind(last.msg) = "RemoteFailure"
               /\ last.msg[Len(last.msg)] = service.status

\* C14: a run that returns gives the disclaimer and header followed by the
\* full response, and the result file then holds that text and nothing
\* else, one paragraph per line, whatever an earlier run had stored.
C14_StoreHoldsReturnedTextOnly ==
    (IsRun /\ last.ok) =>
        /\ last.ret = Cat(disclaimer, last.full_response)
        /\ IsPrefix(disclaimer, last.ret)
        /\ result_file.state = "saved"
        /\ result_file.paragraphs = SplitLines(last.ret)
        /\ Join(Rep(NL, 1), result_file.paragraphs) = last.ret

\* a run stored a response of several lines over the different result of
\* an earlier run
C14_Witness ==
    /\ IsRun /\ last.ok
    /\ last.stored.state = "saved"
    /\ last.stored.paragraphs # result_file.paragraphs
    /\ last.full_response = Lit(<<"a", NL, NL, "b", NL>>)
    /\ Len(result_file.paragraphs) = Len(SplitLines(disclaimer)) + 3

IsSeqAppend ==
    /\ last.op = "add_to_ai_prompt" /\ last.ok
    /\ last.arg.kind \in {"list", "tuple", "ndarray"}

\* the text of the elements i..j of xs, each followed by one space
RECURSIVE EachThenSpace(_, _, _)
EachThenSpace(xs, i, j) ==
    IF i > j THEN NoText
    ELSE IF i = j THEN Cat(str_elem(xs[i]), Rep(" ", 1))
    ELSE LET mid == (i + j) \div 2
         IN  Cat(EachThenSpace(xs, i, mid), EachThenSpace(xs, mid + 1, j))

\* C15: the block appended for a list, tuple or array of n elements is, after
\* the label if there is one: for n <= 100 the text of every element, in
\* order, one space between neighbours; for n > 100 the text of the first
\* 100 elements, in order, one space between neighbours, followed by
\* " ... [and n-100 more]".
C15_SequencePreview ==
    IsSeqAppend =>
        LET xs    == last.arg.xs
            n     == Len(xs)
            block == log[Len(log)]
            label == IF last.opt = NoText THEN NoText
                     ELSE Cat(last.opt, Rep(" ", 1))
            shown == IF n > 100 THEN 100 ELSE n
            tail_ == IF n > 100
                     THEN Cat(Lit(<<".", ".", ".", " ", "[", "a", "n", "d", " ">>),
                              Cat(IntToText(n - 100),
                                  Lit(<<" ", "m", "o", "r", "e", "]">>)))
                     ELSE NoText
        IN
        /\ IsPrefix(label, block)
        /\ n = 0 => block = Cat(label, tail_)
        /\ (n > 0 /\ n <= 100) =>
               Cat(block, Rep(" ", 1)) = Cat(label, EachThenSpace(xs, 1, n))
        /\ n > 100 =>
               block = Cat(label, Cat(EachThenSpace(xs, 1, shown), tail_))
        /\ ai_prompt = AppendLine(last.pre, block)

\* an array of more than 100 elements: the last element shown is the 100th
\* and the trailer counts the rest
C15_Witness ==
    /\ IsSeqAppend /\ last.arg.kind = "ndarray"
    /\ Len(last.arg.xs) = max_preview_length + Over
    /\ log[Len(log)] =
         Cat(Lit(<<"a", " ", "b">>),
             Cat(Rep(" ", max_preview_length - 1),
                 Cat(Lit(<<".", ".", ".", " ", "[", "a", "n", "d", " ">>),
                     Cat(IntToText(Over), Lit(<<" ", "m", "o", "r", "e", "]">>)))))

\* C16: an append that returns gives back the value it was called with, the
\* whole of it and of the same kind, whether or not there is a label and
\* whether or not the text appended is a preview of it.
C16_AppendReturnsItsArgument ==
    (last.op = "add_to_ai_prompt" /\ last.ok) =>
        /\ last.ret = last.arg
        /\ last.ret.kind = last.arg.kind
        /\ PyLen(last.ret) = PyLen(last.arg)

\* a labelled list of more than 100 elements: the text is a preview, the
\* value returned is the whole list
C16_Witness ==
    /\ last.op = "add_to_ai_prompt" /\ last.ok
    /\ last.opt = ctx /\ last.arg.kind = "list"
    /\ PyLen(last.arg) > max_preview_length
    /\ PyLen(last.ret) = PyLen(last.arg)
    /\ log[Len(log)] # results_string(Head_n(last.arg, max_preview_length), ctx).text

\* the positions in the last call's effects of the effect e
At(e) == {i \in 1..Len(last.effects) : last.effects[i] = e}

\* C17: only a run that has read its stream to the end or to the first
\* done = true fragment writes the result file, after its request and before
\* it clears the buffer.  A run that fails a configuration check or fails in
\* the HTTP exchange (connection, timeout, status, an error while the stream
\* is read) leaves the file as it was, and so does every append and load:
\* the file holds the result of the most recent run that returned.
C17_StoreWrittenOnlyByCompletedRun ==
    /\ ~IsRun => result_file = last.stored
    /\ IsRun =>
         /\ (~last.ok /\ last.exc # "OSError") =>
                /\ result_file = last.stored
                /\ At("SAVE") = {} /\ At("RESET") = {}
         /\ At("SAVE") # {} =>
                /\ \A i \in 1..FirstDone(last.lines) :
                      last.lines[i].kind \in {"obj", "blank", "badjson"}
                /\ last.full_response
                     = TokensUpTo(last.lines, FirstDone(last.lines))
                /\ \A i \in At("SAVE") : /\ \E j \in At("POST") : j < i
                                         /\ \A j \in At("RESET") : i < j
         /\ At("RESET") # {} => At("SAVE") # {}
         /\ last.ok =>
                /\ Cardinality(At("SAVE")) = 1 /\ Cardinality(At("RESET")) = 1
                /\ result_file.paragraphs = SplitLines(last.ret)

\* the stream broke after a token had arrived: the result an earlier run
\* had stored is still the one in the file
C17_Witness ==
    /\ IsRun /\ ~last.ok /\ Posts = 1
    /\ last.lines # << >> /\ last.full_response # NoText
    /\ result_file.state = "saved" /\ result_file = last.stored
    /\ result_file.paragraphs # SplitLines(Cat(disclaimer, last.full_response))
    /\ ai_prompt = last.pre

====
